---- MODULE Spec2Model ----
(***************************************************************************)
(* Model of snapshot.py: the LeanIX export client.  One instance of the    *)
(* class LeanIX is constructed and the module-level sequence               *)
(*     leanIX.connect(); leanIX.take_snapshot(); leanIX.download_surveys() *)
(* is run once.  The remote API is the environment: each request is        *)
(* answered by a response drawn from a small set.                          *)
(*                                                                         *)
(* Python strings that are built by concatenation or str.replace are       *)
(* sequences of one-character strings; None is the string "None".          *)
(***************************************************************************)
EXTENDS Integers, Sequences, FiniteSets, TLC

\* ------------------------------------------------------------- bounds
\* most entries the poll service lists in one download_surveys, the survey
\* listing and the run listings taken together
MaxListed == 3
\* most export records one lookup is answered with
MaxRecords == 2

\* ------------------------------------------------------------- values
None == "None"

\* self.timeout, set in __init__
timeout == 7200
\* waiting_since += 5 ; time.sleep(5)
PollInterval == 5
\* binary.iter_content(1024)
ChunkSize == 1024

\* access tokens the token endpoint may hand out
Tokens == {"tokA", "tokB"}
\* data.jobId of the trigger response
JobIds == {"J1"}
\* data.workspaceId of a job-status response
WorkspaceIds == {"ws1", "ws2"}
\* data.status of a job-status response
JobStatuses == {"IN_PROGRESS", "DONE"}
\* status of the newest export record
RecordStatuses == {"COMPLETED", "FAILED", "IN_PROGRESS"}
\* downloadKey of the newest export record
DownloadKeys == {"k1", "k2"}
\* bodies the download endpoint streams (bytes)
Bodies == {<<1, 2>>, <<3>>}
\* content of a run's poll_results.xlsx
ResultBodies == {<<7, 8>>, <<9>>}
\* datetime.date.today() as <<year, month, day>>: the days the clock shows
\* in the course of a run, in order
Clock == << <<2024, 12, 31>>, <<2025, 1, 1>> >>
\* ids of surveys and of runs, as Python strings
SurveyIdSet == {<<"S", "1">>, <<"S", "2">>}
RunIdSet == {<<"R", "9">>, <<"R", "1">>}

\* status codes the server answers with: a JSON request gets its documented
\* body or an error, the download may also come without a 200; 600 is a
\* status above the range raise_for_status looks at
JsonCodes == {200, 500}
DownloadCodes == {200, 204, 500, 600}

\* a Python value with its type
PyStr(v) == [type |-> "str", value |-> v]

\* config.ini, section MANDATORY: configparser hands every value out as a str
ProxyRequiredValues == {PyStr("True"), PyStr("False")}
HTTP_PROXY == "http://proxy:8080"
HTTPS_PROXY == "https://proxy:8443"
WORKSPACEID == "wsCfg"

\* config.ini, section OPTIONAL: the filename templates
EXPORT_FILENAME ==
  <<"e","x","p","o","r","t","_","{","c","d","a","t","e","}",".","x","l","s","x">>
SURVEY_FILENAME ==
  <<"s","u","r","v","e","y","_","{","i","d","}","_","{","r","u","n","}","_",
    "{","c","d","a","t","e","}",".","x","l","s","x">>

\* ------------------------------------------------------------- strings
Digits == <<"0", "1", "2", "3", "4", "5", "6", "7", "8", "9">>

\* str(n) for n >= 0
RECURSIVE Str(_)
Str(n) == IF n < 10 THEN <<Digits[n + 1]>>
          ELSE Str(n \div 10) \o <<Digits[(n % 10) + 1]>>

\* f"{d:%m}", f"{d:%d}": two digits, zero padded
Pad2(n) == IF n < 10 THEN <<"0">> \o Str(n) ELSE Str(n)

\* line 50: three reads of the clock, the year taken from the first, the
\* month from the second, the day from the third
get_today_date(reads) ==
  Str(reads[1][1]) \o <<"-">> \o Pad2(reads[2][2]) \o <<"-">> \o Pad2(reads[3][3])

\* the three reads of one call on a clock that does not run backwards, as
\* positions in the days it shows, none before the day it showed last
Reads(clock, from) ==
  {r \in [1..3 -> from..Len(clock)] : r[1] <= r[2] /\ r[2] <= r[3]}
At(clock, r) == <<clock[r[1]], clock[r[2]], clock[r[3]]>>

\* str.replace(old, new), old non-empty: leftmost non-overlapping occurrences
RECURSIVE Replace(_, _, _)
Replace(s, old, new) ==
  IF Len(s) < Len(old) THEN s
  ELSE IF SubSeq(s, 1, Len(old)) = old
       THEN new \o Replace(SubSeq(s, Len(old) + 1, Len(s)), old, new)
       ELSE <<s[1]>> \o Replace(Tail(s), old, new)

CDATE == <<"{","c","d","a","t","e","}">>
ID == <<"{","i","d","}">>
RUN == <<"{","r","u","n","}">>

\* line 126: template.replace("{cdate}", today)
ResolveExport(template, reads) == Replace(template, CDATE, get_today_date(reads))

\* line 160: template.replace("{cdate}", today).replace("{id}", survey)
\*                   .replace("{run}", run)
ResolveSurvey(template, reads, survey, run) ==
  Replace(Replace(Replace(template, CDATE, get_today_date(reads)), ID, survey),
          RUN, run)

\* line 126: the snapshot's filename
ExportFilename(reads) == ResolveExport(EXPORT_FILENAME, reads)

\* line 160: a survey run's filename
SurveyFilename(reads, survey, run) ==
  ResolveSurvey(SURVEY_FILENAME, reads, survey, run)

\* inputs of the filename resolution taken on its own: templates an operator
\* may configure, dates, and ids as the server may spell them
ExportTemplates ==
  {EXPORT_FILENAME, <<"{","c","d","a","t","e","}","{","c","d","a","t","e","}">>, <<"{","i","d","}",".","x">>}
SurveyTemplates ==
  {SURVEY_FILENAME, <<"{","r","u","n","}","{","i","d","}","{","i","d","}">>,
   <<"{","r","{","i","d","}","n","}">>, <<"{","c","d","a","t","e","}","-","{","r","u","n","}">>}
NameClock == << <<2024, 3, 5>>, <<2024, 12, 31>>, <<2025, 1, 1>> >>
NameSurveyIds == {<<"S","1">>, <<"r","u","n">>, <<"{","r","u","n","}">>, <<"u">>}
NameRunIds == {<<"R","9">>, <<"{","i","d","}">>, <<"{","c","d","a","t","e","}">>}

\* binary.iter_content(n): the body in chunks of at most n bytes
RECURSIVE iter_content(_, _)
iter_content(body, n) ==
  IF Len(body) = 0 THEN <<>>
  ELSE IF Len(body) <= n THEN <<body>>
       ELSE <<SubSeq(body, 1, n)>> \o iter_content(SubSeq(body, n + 1, Len(body)), n)

\* lines 129-131: what the file holds after every chunk was written
RECURSIVE WriteChunks(_)
WriteChunks(chunks) ==
  IF chunks = <<>> THEN <<>> ELSE Head(chunks) \o WriteChunks(Tail(chunks))

\* all sequences over S of length at most n
SeqsUpTo(S, n) == UNION {[1..k -> S] : k \in 0..n}

\* the export records a lookup is answered with, newest first, at most n:
\* none, or the newest in any status followed by older, finished ones
ExportListings(n) ==
  {<<>>} \cup
  {<<newest>> \o older : newest \in RecordStatuses \X DownloadKeys,
                         older \in SeqsUpTo({"COMPLETED"} \X DownloadKeys, n - 1)}

\* ------------------------------------------------------------- state
VARIABLES
  pc,             \* where the process is
  proxy_required, \* config['MANDATORY']['PROXY_REQUIRED']
  proxies,        \* self.proxies
  header,         \* self.header: NoneObj or Dict(items)
  job_id,         \* take_snapshot's locals
  status,
  waiting_since,
  workspace_id,
  download_key,
  result,         \* what take_snapshot returned ("unset" before it returns)
  survey_ids,     \* download_surveys' locals: the listings, the cursors into them
  si,
  runs,
  ri,
  files,          \* the file system: filename -> content
  reports,        \* the kinds of message printed so far
  lastReq,        \* the request most recently handed to requests.get/post
  lastCode,       \* the status code it was answered with
  lastBody,       \* the body of the latest binary response that did not raise
  sent,           \* how many requests of each one-shot kind were issued
  polls,          \* status polls issued by the running take_snapshot
  reauths,        \* connect() calls completed inside its loop
  issued,         \* the access token the token endpoint returned last
  sawDone,        \* some status poll of this run answered "DONE"
  recordSeen,     \* the status of the export record the lookup returned
  log,            \* what download_surveys did, in order
  resolved,       \* the filename resolution looked at on its own: its inputs, the name
  polled,         \* the latest job-status answer of the running take_snapshot
  listed,         \* the downloadKeys of the export records its lookup listed
  today           \* the day the clock showed when last read, a position in Clock

vars == <<pc, proxy_required, proxies, header, job_id, status, waiting_since,
          workspace_id, download_key, result, survey_ids, si, runs, ri, files,
          reports, lastReq, lastCode, lastBody, sent, polls, reauths, issued,
          sawDone, recordSeen, log, resolved, polled, listed, today>>

\* the state of the run itself
programVars == <<pc, proxy_required, proxies, header, job_id, status,
                 waiting_since, workspace_id, download_key, result, survey_ids,
                 si, runs, ri, files, reports, lastReq, lastCode, lastBody, sent,
                 polls, reauths, issued, sawDone, recordSeen, log, polled,
                 listed, today>>

config == <<proxy_required, proxies>>
snapshotLocals == <<job_id, status, waiting_since, workspace_id, download_key>>
surveyLocals == <<survey_ids, si, runs, ri>>
loopCounters == <<polls, reauths>>
wire == <<polled, listed>>

\* ------------------------------------------------------------- parts
instance == "https://instance"
base_path == "/services/pathfinder/v1"
poll_url == "/services/poll/v2"

\* the object None, and a dict: told apart by their tag
NoneObj == [tag |-> "None"]
Dict(items) == [tag |-> "dict", items |-> items]
NoReq == [kind |-> "none"]
EmptyFS == [f \in {} |-> <<>>]
OneShot == {"trigger", "exports", "download"}
SurveyKinds == {"polls", "pollRuns", "results"}

\* open(name, 'wb') ... write: the file is created or replaced
WriteFile(fs, name, content) ==
  [f \in DOMAIN fs \cup {name} |-> IF f = name THEN content ELSE fs[f]]

\* line 122 and line 136: one entry of the header dict set, deleted
SetItem(h, key, val) ==
  Dict([k \in DOMAIN h.items \cup {key} |-> IF k = key THEN val ELSE h.items[k]])
DelItem(h, key) == Dict([k \in DOMAIN h.items \ {key} |-> h.items[k]])
HasItem(h, key) == h.tag = "dict" /\ key \in DOMAIN h.items

\* `v is True`: identity with the bool True, which no str has
IsTrue(v) == v.type = "bool" /\ v.value = TRUE

\* the proxies of config.ini
ConfiguredProxies == Dict([http |-> HTTP_PROXY, https |-> HTTPS_PROXY])

\* line 31: self.proxies
ProxiesFor(flag) == IF IsTrue(flag) THEN ConfiguredProxies ELSE NoneObj

\* response.raise_for_status(): an HTTPError for 4xx and 5xx, for no other status
Raises(code) == 400 <= code /\ code < 600

\* lines 38-41: the token exchange of connect()
TokenRequest ==
  [kind |-> "token", method |-> "POST",
   url |-> <<instance, "/services/mtm/v1/oauth2/token">>,
   headers |-> NoneObj, proxies |-> proxies, params |-> None,
   data |-> "grant_type=client_credentials", stream |-> FALSE]

\* lines 63-69: the request access_leanix_api hands to requests, hdr being
\* self.header at the time of the call
access_leanix_api(hdr, kind, url, method, data, params, stream) ==
  [kind |-> kind, method |-> method, url |-> url,
   headers |-> hdr, proxies |-> proxies, params |-> params,
   data |-> data, stream |-> stream]

\* line 43: the header connect() installs
BearerHeader(tok) == Dict([Authorization |-> <<"Bearer ", tok>>])

\* line 93 with the counter compared by <=
LoopCond_late == status # "DONE" /\ waiting_since <= timeout

\* line 93: the loop condition
LoopCond == status # "DONE" /\ waiting_since < timeout

\* line 102: the test after the loop
TimedOut_gt == waiting_since > timeout
TimedOut == waiting_since >= timeout

\* line 114: the test of the export record's status
NotCompleted_failed(s) == s = "FAILED"
NotCompleted(s) == s # "COMPLETED"

\* an uncaught exception: the process ends with a traceback
Crash(unch) == pc' = "crashed" /\ UNCHANGED unch

\* ------------------------------------------------------------- Init
\* line 169: leanIX = LeanIX()
Init ==
  /\ pc = "main_connect"
  /\ proxy_required \in ProxyRequiredValues
  /\ proxies = ProxiesFor(proxy_required)
  /\ header = NoneObj
  /\ job_id = None /\ status = None /\ waiting_since = 0
  /\ workspace_id = None /\ download_key = None
  /\ result = "unset"
  /\ survey_ids = <<>> /\ si = 0 /\ runs = <<>> /\ ri = 0
  /\ files = EmptyFS
  /\ reports = {}
  /\ lastReq = NoReq
  /\ lastCode = 0
  /\ lastBody = <<>>
  /\ sent = [k \in OneShot |-> 0]
  /\ polls = 0 /\ reauths = 0
  /\ issued = None
  /\ sawDone = FALSE
  /\ recordSeen = None
  /\ log = <<>>
  /\ resolved = NoneObj
  /\ polled = NoneObj /\ listed = <<>>
  /\ today = 1

\* ------------------------------------------------------------- actions
\* line 170 with the token fetched and line 43 left out
MainConnect_discard ==
  /\ pc = "main_connect"
  /\ lastReq' = TokenRequest
  /\ \E code \in JsonCodes, tok \in Tokens :
       /\ lastCode' = code
       /\ IF Raises(code)
          THEN Crash(<<header, issued>>)
          ELSE /\ header' = header
               /\ issued' = tok
               /\ pc' = "take_snapshot"
  /\ UNCHANGED <<config, resolved, today, wire, lastBody, snapshotLocals, result, surveyLocals, files, reports,
                 sent, loopCounters, sawDone, recordSeen, log>>

\* line 170: leanIX.connect()
MainConnect ==
  /\ pc = "main_connect"
  /\ lastReq' = TokenRequest
  /\ \E code \in JsonCodes, tok \in Tokens :
       /\ lastCode' = code
       /\ IF Raises(code)
          THEN Crash(<<header, issued>>)
          ELSE /\ header' = BearerHeader(tok)
               /\ issued' = tok
               /\ pc' = "take_snapshot"
  /\ UNCHANGED <<config, resolved, today, wire, lastBody, snapshotLocals, result, surveyLocals, files, reports,
                 sent, loopCounters, sawDone, recordSeen, log>>

\* lines 78-91: trigger the export, set up the loop
TriggerExport ==
  /\ pc = "take_snapshot"
  /\ lastReq' = access_leanix_api(header, "trigger",
                   <<instance, base_path, "/exports/fullExport">>, "POST", None,
                   [exportType |-> "SNAPSHOT"], FALSE)
  /\ sent' = [sent EXCEPT !["trigger"] = @ + 1]
  /\ \E code \in JsonCodes, j \in JobIds :
       /\ lastCode' = code
       /\ IF Raises(code)
          THEN Crash(snapshotLocals)
          ELSE /\ job_id' = j
               /\ status' = None
               /\ waiting_since' = 0
               /\ workspace_id' = None
               /\ UNCHANGED download_key
               /\ pc' = "loop"
  /\ UNCHANGED <<config, resolved, today, wire, lastBody, header, result, surveyLocals, files, reports,
                 loopCounters, issued, sawDone, recordSeen, log>>

\* line 94 done by a client that keeps the token it has
LoopConnect_cached ==
  /\ pc = "loop"
  /\ LoopCond
  /\ lastReq' = TokenRequest
  /\ \E code \in JsonCodes, tok \in Tokens :
       /\ lastCode' = code
       /\ IF Raises(code)
          THEN Crash(<<header, issued, reauths>>)
          ELSE /\ header' = IF header.tag = "None" THEN BearerHeader(tok) ELSE header
               /\ issued' = tok
               /\ reauths' = reauths + 1
               /\ pc' = "poll"
  /\ UNCHANGED <<config, resolved, today, wire, lastBody, snapshotLocals, result, surveyLocals, files, reports,
                 sent, polls, sawDone, recordSeen, log>>

\* lines 93-94: the loop condition holds, connect() again
LoopConnect ==
  /\ pc = "loop"
  /\ LoopCond
  /\ lastReq' = TokenRequest
  /\ \E code \in JsonCodes, tok \in Tokens :
       /\ lastCode' = code
       /\ IF Raises(code)
          THEN Crash(<<header, issued, reauths>>)
          ELSE /\ header' = BearerHeader(tok)
               /\ issued' = tok
               /\ reauths' = reauths + 1
               /\ pc' = "poll"
  /\ UNCHANGED <<config, resolved, today, wire, lastBody, snapshotLocals, result, surveyLocals, files, reports,
                 sent, polls, sawDone, recordSeen, log>>

\* line 95 with the HTTPError of the poll caught and the loop going on
PollError_swallow ==
  /\ waiting_since' = waiting_since + PollInterval
  /\ pc' = "loop"
  /\ UNCHANGED <<job_id, status, workspace_id, download_key, sawDone>>

\* line 95 with a failed status poll issued again
PollError_retry ==
  /\ pc' = "poll"
  /\ UNCHANGED <<snapshotLocals, sawDone>>

\* line 95: the HTTPError of a status poll is not caught
PollError == Crash(<<snapshotLocals, sawDone>>)

\* line 97 keeping the workspace id of the first answer
workspace_id_first(held, answered) == IF held = None THEN answered ELSE held

\* line 97: workspace_id = response['data']['workspaceId']
workspace_id_after(held, answered) == answered

\* lines 95-100: one status poll, then the counter advances
StatusPoll ==
  /\ pc = "poll"
  /\ lastReq' = access_leanix_api(header, "status",
                   <<instance, base_path, "/jobs/", job_id, "/status">>, "GET",
                   None, None, FALSE)
  /\ polls' = polls + 1
  /\ \E code \in JsonCodes :
       /\ lastCode' = code
       /\ IF Raises(code)
          THEN PollError /\ UNCHANGED polled
          ELSE \E s \in JobStatuses, w \in WorkspaceIds :
               /\ status' = s
               /\ workspace_id' = workspace_id_after(workspace_id, w)
               /\ waiting_since' = waiting_since + PollInterval
               /\ sawDone' = (sawDone \/ s = "DONE")
               /\ polled' = [tag |-> "status", status |-> s, workspaceId |-> w]
               /\ UNCHANGED <<job_id, download_key>>
               /\ pc' = "loop"
  /\ UNCHANGED <<config, resolved, today, listed, lastBody, header, result, surveyLocals, files, reports, sent,
                 reauths, issued, recordSeen, log>>

\* take_snapshot returns: its frame, and the counters of its loop, are gone
Return(val) ==
  /\ result' = val
  /\ job_id' = None /\ status' = None /\ waiting_since' = 0
  /\ workspace_id' = None /\ download_key' = None
  /\ polls' = 0 /\ reauths' = 0
  /\ polled' = NoneObj /\ listed' = <<>>
  /\ pc' = "download_surveys"

\* lines 102-104: the loop is over and the counter reached the timeout
TimeoutReturn ==
  /\ pc = "loop"
  /\ ~LoopCond
  /\ TimedOut
  /\ reports' = reports \cup {"timeout"}
  /\ Return("False")
  /\ UNCHANGED <<config, resolved, today, lastBody, header, surveyLocals, files, lastReq, lastCode, sent,
                 issued, sawDone, recordSeen, log>>

\* lines 106-116: look the newest export record up, check its status
RequestKey ==
  /\ pc = "loop"
  /\ ~LoopCond
  /\ ~TimedOut
  /\ lastReq' = access_leanix_api(header, "exports",
                   <<instance, base_path, "/exports">>, "GET",
                   "{\"exportType\": \"SNAPSHOT\"}",
                   [exportType |-> "SNAPSHOT", pageSize |-> 1,
                    sorting |-> "createdAt", sortDirection |-> "DESC"], FALSE)
  /\ sent' = [sent EXCEPT !["exports"] = @ + 1]
  /\ \E code \in JsonCodes :
       /\ lastCode' = code
       /\ IF Raises(code)
          THEN \* HTTPError
               /\ Crash(<<snapshotLocals, loopCounters, result>>)
               /\ UNCHANGED <<reports, recordSeen, wire>>
          ELSE \E data \in ExportListings(MaxRecords) :
               IF data = <<>>
               THEN \* IndexError on data["data"][0]
                    /\ Crash(<<snapshotLocals, loopCounters, result>>)
                    /\ UNCHANGED <<reports, recordSeen, wire>>
               ELSE
               /\ recordSeen' = data[1][1]
               /\ IF NotCompleted(data[1][1])
                  THEN /\ reports' = reports \cup {"not_completed"}
                       /\ Return("False")
                  ELSE /\ status' = data[1][1]
                       /\ download_key' = data[1][2]
                       /\ listed' = [i \in 1..Len(data) |-> data[i][2]]
                       /\ pc' = "download"
                       /\ UNCHANGED <<job_id, waiting_since, workspace_id,
                                      loopCounters, result, reports, polled>>
  /\ UNCHANGED <<config, resolved, today, lastBody, header, surveyLocals, files, issued, sawDone, log>>

\* lines 133-135 with the HTTPError raised again
DownloadError_raise(withAccept) ==
  /\ reports' = reports \cup {"download_error"}
  /\ header' = withAccept
  /\ Crash(<<snapshotLocals, loopCounters, result, files, lastBody, wire>>)

\* lines 133-135 with the handler returning False
DownloadError_false(withAccept) ==
  /\ reports' = reports \cup {"download_error"}
  /\ header' = withAccept
  /\ UNCHANGED <<files, lastBody>>
  /\ Return("False")

\* lines 133-135: except HTTPError: print, return
DownloadError(withAccept) ==
  /\ reports' = reports \cup {"download_error"}
  /\ header' = withAccept
  /\ UNCHANGED <<files, lastBody>>
  /\ Return("None")

\* lines 118-136: download the export and store it
Download ==
  /\ pc = "download"
  /\ LET withAccept == SetItem(header, "Accept", "application/octet-stream")
     IN /\ lastReq' = access_leanix_api(withAccept, "download",
                   <<instance, base_path, "/exports/downloads/", workspace_id>>,
                   "GET", None, [key |-> download_key], TRUE)
        /\ sent' = [sent EXCEPT !["download"] = @ + 1]
        /\ \E code \in DownloadCodes :
             /\ lastCode' = code
             /\ IF Raises(code)
                THEN DownloadError(withAccept) /\ UNCHANGED today
                ELSE \E body \in IF code = 204 THEN {<<>>} ELSE Bodies,
                        r \in Reads(Clock, today) :
                     /\ today' = r[3]
                     /\ reports' = reports \cup {"saved"}
                     /\ lastBody' = body
                     /\ files' = IF code = 200
                                 THEN WriteFile(files, ExportFilename(At(Clock, r)),
                                        WriteChunks(iter_content(body, ChunkSize)))
                                 ELSE files
                     /\ header' = DelItem(withAccept, "Accept")
                     /\ Return("None")
  /\ UNCHANGED <<config, resolved, surveyLocals, issued, sawDone, recordSeen, log>>

\* the parameters every survey request carries (line 146)
SurveyParams == [workspaceId |-> WORKSPACEID]

\* lines 163-165 with the failed request tried again
SurveysAbort_retry ==
  /\ reports' = reports \cup {"surveys_error"}
  /\ pc' = pc

\* lines 163-165: except HTTPError: print, return
SurveysAbort ==
  /\ reports' = reports \cup {"surveys_error"}
  /\ pc' = "exit"

\* lines 143-148: list the surveys
SurveyList ==
  /\ pc = "download_surveys"
  /\ lastReq' = access_leanix_api(header, "polls",
                   <<instance, poll_url, "/polls">>, "GET", None, SurveyParams,
                   FALSE)
  /\ \E code \in JsonCodes :
       /\ lastCode' = code
       /\ IF Raises(code)
          THEN /\ SurveysAbort
               /\ log' = Append(log, <<"polls", <<>>, "HTTPError">>)
               /\ UNCHANGED surveyLocals
          ELSE \E ids \in SeqsUpTo(SurveyIdSet, MaxListed) :
               /\ survey_ids' = ids
               /\ si' = 1
               /\ log' = Append(log, <<"polls", ids>>)
               /\ pc' = "surveys"
               /\ UNCHANGED <<runs, ri, reports>>
  /\ UNCHANGED <<config, resolved, today, wire, lastBody, header, snapshotLocals, result, files, sent,
                 loopCounters, issued, sawDone, recordSeen>>

\* line 151: the survey the outer loop is at
CurrentSurvey == survey_ids[si]

\* line 156 iterating the runs from the last to the first
CurrentRun_reversed == runs[Len(runs) + 1 - ri]

\* line 156: the run the inner loop is at
CurrentRun == runs[ri]

\* the run listings answered so far, in order
IsRunListing(e) == e[1] = "pollRuns"
RunAnswers ==
  LET ls == SelectSeq(log, IsRunListing) IN [i \in 1..Len(ls) |-> ls[i][3]]

\* the entries the poll service has listed so far in this download_surveys
RECURSIVE TotalLen(_)
TotalLen(ls) == IF ls = <<>> THEN 0 ELSE Len(Head(ls)) + TotalLen(Tail(ls))
Listed == Len(survey_ids) + TotalLen(RunAnswers)

\* lines 151-153: the next survey of the listing, list its runs
RunList ==
  /\ pc = "surveys"
  /\ si <= Len(survey_ids)
  /\ lastReq' = access_leanix_api(header, "pollRuns",
                   <<instance, poll_url, "/polls/", CurrentSurvey, "/pollRuns">>,
                   "GET", None, SurveyParams, FALSE)
  /\ \E code \in JsonCodes :
       /\ lastCode' = code
       /\ IF Raises(code)
          THEN /\ SurveysAbort
               /\ log' = Append(log, <<"pollRuns", CurrentSurvey, <<>>, "HTTPError">>)
               /\ UNCHANGED surveyLocals
          ELSE \E ids \in SeqsUpTo(RunIdSet, MaxListed - Listed) :
               /\ runs' = ids
               /\ ri' = 1
               /\ log' = Append(log, <<"pollRuns", CurrentSurvey, ids>>)
               /\ pc' = "runs"
               /\ UNCHANGED <<survey_ids, si, reports>>
  /\ UNCHANGED <<config, resolved, today, wire, lastBody, header, snapshotLocals, result, files, sent,
                 loopCounters, issued, sawDone, recordSeen>>

\* lines 156-162: the next run of the survey, fetch its result and store it
RunResult ==
  /\ pc = "runs"
  /\ ri <= Len(runs)
  /\ lastReq' = access_leanix_api(header, "results",
                   <<instance, poll_url, "/pollRuns/", CurrentRun,
                     "/poll_results.xlsx">>,
                   "GET", None, SurveyParams, FALSE)
  /\ \E code \in JsonCodes :
       /\ lastCode' = code
       /\ IF Raises(code)
          THEN /\ SurveysAbort
               /\ log' = Append(log, <<"results", CurrentSurvey, CurrentRun,
                                        "HTTPError">>)
               /\ UNCHANGED <<surveyLocals, files, lastBody, today>>
          ELSE \E body \in ResultBodies, r \in Reads(Clock, today) :
               /\ today' = r[3]
               /\ lastBody' = body
               /\ files' = WriteFile(files,
                              SurveyFilename(At(Clock, r), CurrentSurvey, CurrentRun),
                              body)
               /\ log' = log \o << <<"results", CurrentSurvey, CurrentRun>>,
                                   <<"write", CurrentSurvey, CurrentRun>> >>
               /\ ri' = ri + 1
               /\ UNCHANGED <<survey_ids, si, runs, reports, pc>>
  /\ UNCHANGED <<config, resolved, wire, header, snapshotLocals, result, sent, loopCounters,
                 issued, sawDone, recordSeen>>

\* line 156: the runs of this survey are exhausted, on to the next survey
NextSurvey ==
  /\ pc = "runs"
  /\ ri > Len(runs)
  /\ si' = si + 1
  /\ pc' = "surveys"
  /\ UNCHANGED <<config, resolved, today, wire, lastBody, header, snapshotLocals, result, survey_ids, runs, ri,
                 files, reports, lastReq, lastCode, sent, loopCounters, issued,
                 sawDone, recordSeen, log>>

\* line 151: the surveys are exhausted, download_surveys returns
SurveysReturn ==
  /\ pc = "surveys"
  /\ si > Len(survey_ids)
  /\ pc' = "exit"
  /\ UNCHANGED <<config, resolved, today, wire, lastBody, header, snapshotLocals, result, surveyLocals, files,
                 reports, lastReq, lastCode, sent, loopCounters, issued, sawDone,
                 recordSeen, log>>

Next ==
  \/ MainConnect \/ TriggerExport \/ LoopConnect \/ StatusPoll
  \/ TimeoutReturn \/ RequestKey \/ Download
  \/ SurveyList \/ RunList \/ RunResult \/ NextSurvey \/ SurveysReturn

Spec == Init /\ [][Next]_vars

\* lines 93-116: the interpreter runs the loop on, a step of it that can be
\* taken is taken
FairSpec ==
  /\ Spec
  /\ WF_vars(LoopConnect) /\ WF_vars(StatusPoll)
  /\ WF_vars(TimeoutReturn) /\ WF_vars(RequestKey)

\* ------------------------------------------------- filename resolution
\* lines 126 and 160 on their own: the object is constructed, then names are
\* resolved for templates, dates and ids drawn from the sets above
InitNames ==
  /\ pc = "names"
  /\ proxy_required \in ProxyRequiredValues
  /\ proxies = ProxiesFor(proxy_required)
  /\ header = NoneObj
  /\ job_id = None /\ status = None /\ waiting_since = 0
  /\ workspace_id = None /\ download_key = None
  /\ result = "unset"
  /\ survey_ids = <<>> /\ si = 0 /\ runs = <<>> /\ ri = 0
  /\ files = EmptyFS
  /\ reports = {}
  /\ lastReq = NoReq
  /\ lastCode = 0
  /\ lastBody = <<>>
  /\ sent = [k \in OneShot |-> 0]
  /\ polls = 0 /\ reauths = 0
  /\ issued = None
  /\ sawDone = FALSE
  /\ recordSeen = None
  /\ log = <<>>
  /\ resolved = NoneObj
  /\ polled = NoneObj /\ listed = <<>>
  /\ today = 1

\* line 126
ResolveExportName ==
  /\ pc = "names" /\ resolved = NoneObj
  /\ \E t \in ExportTemplates, r \in Reads(NameClock, 1) :
       resolved' = [tag |-> "export", template |-> t,
                    reads |-> At(NameClock, r),
                    name |-> ResolveExport(t, At(NameClock, r))]
  /\ UNCHANGED programVars

\* line 160
ResolveSurveyName ==
  /\ pc = "names" /\ resolved = NoneObj
  /\ \E t \in SurveyTemplates, r \in Reads(NameClock, 1),
        survey \in NameSurveyIds, run \in NameRunIds :
       resolved' = [tag |-> "survey", template |-> t,
                    reads |-> At(NameClock, r), id |-> survey, run |-> run,
                    name |-> ResolveSurvey(t, At(NameClock, r), survey, run)]
  /\ UNCHANGED programVars

NextNames == ResolveExportName \/ ResolveSurveyName

SpecNames == InitNames /\ [][NextNames]_vars

\* ------------------------------------------------------------- claims
Returned == result # "unset"
OneDay(d) == <<d, d, d>>
ExportWritten ==
  \E r \in Reads(Clock, 1) : ExportFilename(At(Clock, r)) \in DOMAIN files

\* C1: whenever some status poll answered "DONE" (the last one the loop can
\* issue included) and take_snapshot returned, the metadata lookup was issued
\* exactly once and no timeout was reported.
C1_DoneProceedsToLookup ==
  (Returned /\ sawDone) => (sent["exports"] = 1 /\ "timeout" \notin reports)

\* C2: the metadata lookup is issued only after a status poll answered "DONE";
\* a take_snapshot that returns without any poll having answered "DONE", or
\* that reports a timeout, returned False and issued no metadata lookup, no
\* download and wrote no file.
C2_LookupOnlyAfterDone ==
  /\ sent["exports"] > 0 => sawDone
  /\ (Returned /\ (~sawDone \/ "timeout" \in reports)) =>
       /\ "timeout" \in reports
       /\ result = "False"
       /\ sent["exports"] = 0
       /\ sent["download"] = 0
       /\ ~ExportWritten

C2_Witness ==
  pc = "download_surveys" /\ ~sawDone /\ "timeout" \in reports /\ result = "False"

\* C3: the download request and the snapshot file exist only after the lookup
\* returned a first entry with status "COMPLETED"; after any other status
\* take_snapshot has returned False, with no download request, no file and no
\* Accept entry in the shared header.
C3_DownloadOnlyIfCompleted ==
  /\ (sent["download"] > 0 \/ ExportWritten \/ pc = "download") =>
       recordSeen = "COMPLETED"
  /\ recordSeen \notin {None, "COMPLETED"} =>
       /\ result = "False"
       /\ sent["download"] = 0
       /\ ~ExportWritten
       /\ ~HasItem(header, "Accept")

C3_Witness ==
  pc = "download_surveys" /\ recordSeen = "IN_PROGRESS" /\ result = "False"

\* C4: once take_snapshot has returned, on whichever path, the shared header
\* holds no Accept entry, and no request of download_surveys carries one.
C4_AcceptOnlyOnDownload ==
  /\ Returned => ~HasItem(header, "Accept")
  /\ lastReq.kind \in SurveyKinds => ~HasItem(lastReq.headers, "Accept")

\* C5: in the loop every status poll comes right after its own connect(): when
\* the n-th poll is about to be issued n re-authentications are done, after it
\* as many as polls, and the poll carries the token the latest (n-th)
\* re-authentication returned.
C5_ReauthBeforeEachPoll ==
  /\ pc = "poll" => (reauths = polls + 1 /\ header = BearerHeader(issued))
  /\ pc = "loop" => reauths = polls
  /\ lastReq.kind = "status" =>
       (reauths = polls /\ lastReq.headers = BearerHeader(issued))

C5_Witness ==
  /\ pc = "loop" /\ polls = 2 /\ lastReq.kind = "status"
  /\ lastReq.headers = BearerHeader("tokB")

\* C6: an HTTP error on the token exchange, the trigger, a status poll or the
\* metadata lookup ends the process: no step follows, download_surveys was
\* not invoked and no file was written.
C6_FatalErrorsTerminate ==
  /\ (lastReq.kind \in {"token", "trigger", "status", "exports"} /\ Raises(lastCode))
       => pc = "crashed"
  /\ pc = "crashed" =>
       /\ ~ENABLED Next
       /\ lastReq.kind \notin SurveyKinds
       /\ log = <<>>
       /\ files = EmptyFS

C6_Witness ==
  pc = "crashed" /\ lastReq.kind = "status" /\ Raises(lastCode) /\ polls = 2

\* the outcomes take_snapshot recovers from, as reported on the console
Recoverable == {"timeout", "not_completed", "download_error"}
\* C7: after a timeout, an export record that is not COMPLETED, or a caught
\* HTTP error of the download, take_snapshot has returned a value, the process
\* has not ended, and download_surveys is invoked next.
C7_RecoverableOutcomesContinue ==
  \A o \in Recoverable : o \in reports =>
    /\ result \in {"False", "None"}
    /\ pc \in {"download_surveys", "surveys", "runs", "exit"}
    /\ pc = "download_surveys" => ENABLED SurveyList
    /\ pc = "exit" => lastReq.kind \in SurveyKinds

C7_Witness ==
  "download_error" \in reports /\ pc = "surveys" /\ lastReq.kind = "polls"

\* what download_surveys is to do for the runs rs of a survey, in order
RECURSIVE RunEvents(_, _)
RunEvents(survey, rs) ==
  IF rs = <<>> THEN <<>>
  ELSE << <<"results", survey, Head(rs)>>, <<"write", survey, Head(rs)>> >>
       \o RunEvents(survey, Tail(rs))

\* ... and for the surveys ids, whose run listings were answered by answers
RECURSIVE SurveyEvents(_, _)
SurveyEvents(ids, answers) ==
  IF ids = <<>> THEN <<>>
  ELSE << <<"pollRuns", Head(ids), Head(answers)>> >>
       \o RunEvents(Head(ids), Head(answers))
       \o SurveyEvents(Tail(ids), Tail(answers))

SurveysCompleted == pc = "exit" /\ "surveys_error" \notin reports

\* C8: a download_surveys that met no HTTP error has issued one run listing
\* per survey id of the survey listing, in its order, and after each of them
\* one result download followed by one file write per run of that listing, in
\* its order, before the next survey's run listing.
C8_SurveysInListedOrder ==
  SurveysCompleted =>
    LET ids == log[1][2]
    IN /\ Len(RunAnswers) = Len(ids)
       /\ log = <<log[1]>> \o SurveyEvents(ids, RunAnswers)
       /\ \A i \in 1..Len(ids) : \A j \in 1..Len(RunAnswers[i]) :
            \E r \in Reads(Clock, 1) :
              SurveyFilename(At(Clock, r), ids[i], RunAnswers[i][j])
                \in DOMAIN files

C8_Witness ==
  /\ SurveysCompleted
  /\ Len(log[1][2]) = 2 /\ log[1][2][1] # log[1][2][2]
  /\ Len(RunAnswers) = 2 /\ Len(RunAnswers[1]) = 1 /\ Len(RunAnswers[2]) = 0
  /\ Len(log) = 5

\* C9: a request of download_surveys that raises an HTTP error is its last:
\* download_surveys returns (the process is at its end, not ended by an
\* exception), the files are as they were before the request, and no step
\* follows.
C9_SurveyErrorAborts ==
  /\ [][(pc \in {"download_surveys", "surveys", "runs"} /\ Raises(lastCode'))
        => (pc' = "exit" /\ files' = files /\ "surveys_error" \in reports')]_vars
  /\ [][pc # "exit"]_vars

C9_Witness ==
  /\ pc = "exit" /\ "surveys_error" \in reports
  /\ lastReq.kind = "pollRuns"
  /\ Cardinality(DOMAIN files) = 2

\* C10: with the proxy-required flag of the configuration set to true every
\* request is issued with the configured HTTP/HTTPS proxies.
C10_ProxiesOnEveryCall ==
  (proxy_required.value = "True" /\ lastReq.kind # "none") =>
    lastReq.proxies = ConfiguredProxies

\* C11: after a take_snapshot whose job reached "DONE", whose export record
\* was "COMPLETED" and whose download request raised no HTTP error (any status
\* below 400), the file named by the export template with {cdate} replaced by
\* today's date exists and holds exactly the bytes of the response body.
C11_SnapshotFileHoldsBody ==
  (pc = "download_surveys" /\ lastReq.kind = "download" /\ lastCode < 400) =>
    \E i \in 1..Len(Clock) :
      /\ ExportFilename(OneDay(Clock[i])) \in DOMAIN files
      /\ files[ExportFilename(OneDay(Clock[i]))] = lastBody

\* the requests of download_surveys, in order, and whether two of them ask
\* for the same thing
SurveyRequests == SelectSeq(log, LAMBDA e : e[1] \in SurveyKinds)
SameRequest(a, b) ==
  /\ a[1] = b[1]
  /\ a[1] = "polls" \/ a[2] = b[2]
  /\ a[1] = "results" => a[3] = b[3]

\* C12: no call is retried: the trigger, the metadata lookup and the download
\* are requested at most once, the loop issues at most one status poll per
\* iteration, download_surveys asks at most once for the survey listing, for
\* each survey's run listing and for each (survey, run) result, and a request
\* that failed is never followed by a request to the same endpoint.
C12_EachRequestedOnce ==
  /\ [](\A k \in OneShot : sent[k] <= 1)
  /\ [](polls <= reauths /\ polls * PollInterval <= waiting_since + PollInterval)
  /\ [](\A i, j \in 1..Len(SurveyRequests) :
          SameRequest(SurveyRequests[i], SurveyRequests[j]) => i = j)
  /\ [][Raises(lastCode) =>
          (lastReq'.kind # lastReq.kind \/ lastReq'.url # lastReq.url)]_vars

\* how often download_surveys has issued a request of a kind, and whether an
\* event of its log is a request that raised
Count(kind) == Len(SelectSeq(log, LAMBDA e : e[1] = kind))
Failed(e) ==
  \/ e[1] = "polls" /\ Len(e) = 3
  \/ e[1] \in {"pollRuns", "results"} /\ Len(e) = 4

\* C12, amended: no call is retried: the trigger, the metadata lookup and
\* the download are requested at most once, the loop issues at most one status
\* poll per iteration, download_surveys asks once for the survey listing, once
\* per entry of it for a run listing and once per entry of a run listing for
\* a result (an id the service lists twice is asked for twice), the cursors
\* moving on after every request; a request that failed is the last of
\* download_surveys and is never followed by a request to the same endpoint.
C12_NoRetry ==
  /\ [](\A k \in OneShot : sent[k] <= 1)
  /\ [](polls <= reauths /\ polls * PollInterval <= waiting_since + PollInterval)
  /\ [](/\ Count("polls") <= 1
        /\ Count("pollRuns") <= Len(survey_ids)
        /\ Count("results") <= TotalLen(RunAnswers)
        /\ \A i \in 1..(Len(log) - 1) : ~Failed(log[i]))
  /\ [][/\ (pc = "runs" /\ lastReq' # lastReq) => (ri' = ri + 1 \/ pc' = "exit")
        /\ (pc = "runs" /\ pc' = "surveys") => si' = si + 1
        /\ (pc = "surveys" /\ pc' = "runs") =>
             (lastReq'.url[4] = survey_ids[si] /\ Count("pollRuns")' = si)]_vars
  /\ [][Raises(lastCode) =>
          (lastReq'.kind # lastReq.kind \/ lastReq'.url # lastReq.url)]_vars

C12_Witness ==
  /\ SurveysCompleted /\ "download_error" \in reports
  /\ \A k \in OneShot : sent[k] = 1
  /\ Len(survey_ids) = 1 /\ Len(RunAnswers) = 1 /\ Len(RunAnswers[1]) = 2
  /\ RunAnswers[1][1] = RunAnswers[1][2]
  /\ Count("results") = 2

\* the text s holds p at position i
HoldsAt(s, i, p) ==
  i >= 1 /\ i + Len(p) - 1 <= Len(s) /\ SubSeq(s, i, i + Len(p) - 1) = p
DropFirst(s, n) == SubSeq(s, n + 1, Len(s))

\* a template with every occurrence of {cdate} replaced by date, of {id} by
\* id, of {run} by run (those of subst, a set of the three), in one pass:
\* what is put in is not looked at again, every other character is kept
RECURSIVE Subst(_, _, _, _, _)
Subst(t, subst, date, id, run) ==
  IF t = <<>> THEN <<>>
  ELSE IF CDATE \in subst /\ HoldsAt(t, 1, CDATE)
       THEN date \o Subst(DropFirst(t, Len(CDATE)), subst, date, id, run)
  ELSE IF ID \in subst /\ HoldsAt(t, 1, ID)
       THEN id \o Subst(DropFirst(t, Len(ID)), subst, date, id, run)
  ELSE IF RUN \in subst /\ HoldsAt(t, 1, RUN)
       THEN run \o Subst(DropFirst(t, Len(RUN)), subst, date, id, run)
  ELSE <<t[1]>> \o Subst(Tail(t), subst, date, id, run)

\* what the claim says the name is, date being the day of the call
Literal(date) ==
  IF resolved.tag = "export"
  THEN Subst(resolved.template, {CDATE}, get_today_date(OneDay(date)), <<>>, <<>>)
  ELSE Subst(resolved.template, {CDATE, ID, RUN}, get_today_date(OneDay(date)),
             resolved.id, resolved.run)

\* braces occur in the template only as part of the three placeholders
WellFormed(t) ==
  \A i \in 1..Len(t) :
    /\ t[i] = "{" => \E p \in {CDATE, ID, RUN} : HoldsAt(t, i, p)
    /\ t[i] = "}" => \E p \in {CDATE, ID, RUN} : HoldsAt(t, i - Len(p) + 1, p)
BraceFree(s) == \A i \in 1..Len(s) : s[i] \notin {"{", "}"}

Example1 ==
  <<"e","x","p","o","r","t","_","2","0","2","4","-","0","3","-","0","5",
    ".","x","l","s","x">>
Example2 ==
  <<"s","u","r","v","e","y","_","S","1","_","R","9","_","2","0","2","4","-",
    "0","3","-","0","5",".","x","l","s","x">>

\* C13: every resolved name is the template with every occurrence
\* of its placeholders replaced by the date, the survey id and the run id, and
\* every other character unchanged.
C13_LiteralSubstitution ==
  resolved.tag \in {"export", "survey"} =>
    \E i \in 1..3 : resolved.name = Literal(resolved.reads[i])

\* where the chained replace and the one-pass substitution agree, the clock
\* showing one day on all three reads: the two worked examples, every export
\* name, and every survey name whose template has braces only in its
\* placeholders and whose survey id has no brace
PlainInputsResolveLiterally ==
  (resolved.tag \in {"export", "survey"}
     /\ resolved.reads = OneDay(resolved.reads[1])) =>
    /\ resolved.tag = "export" => resolved.name = Literal(resolved.reads[1])
    /\ (resolved.tag = "survey" /\ WellFormed(resolved.template)
          /\ BraceFree(resolved.id)) => resolved.name = Literal(resolved.reads[1])
    /\ (resolved.tag = "export" /\ resolved.template = EXPORT_FILENAME
          /\ resolved.reads[1] = <<2024, 3, 5>>) => resolved.name = Example1
    /\ (resolved.tag = "survey" /\ resolved.template = SURVEY_FILENAME
          /\ resolved.reads[1] = <<2024, 3, 5>> /\ resolved.id = <<"S", "1">>
          /\ resolved.run = <<"R", "9">>) => resolved.name = Example2

InPollLoop == pc \in {"loop", "poll"}

\* C14: the poll loop terminates; a completed iteration advances the counter
\* by exactly 5 whatever the job status answered; no status poll is issued
\* with the counter at or above the timeout; at most timeout/5 polls are
\* issued in one run; once "DONE" was answered no further poll is issued.
C14_PollLoopTerminates ==
  /\ InPollLoop ~> ~InPollLoop
  /\ [][(pc = "poll" /\ pc' = "loop") =>
          waiting_since' = waiting_since + PollInterval]_vars
  /\ [](InPollLoop => waiting_since = PollInterval * polls)
  /\ [](pc = "poll" => waiting_since < timeout)
  /\ [](polls <= timeout \div PollInterval)
  /\ [][(InPollLoop /\ status = "DONE") =>
          (polls' = polls \/ (polls' = 0 /\ Returned'))]_vars

C14_Witness ==
  /\ pc = "loop" /\ status # "DONE"
  /\ polls = timeout \div PollInterval
  /\ waiting_since = timeout

SnapshotKinds == {"token", "trigger", "exports", "download"}

\* C15: the download request is addressed to the workspaceId of the latest
\* status answer, which is the one that reported "DONE", and carries as key
\* the downloadKey of the first export record listed; no request of
\* take_snapshot other than the status poll has the job id in its URL.
C15_DownloadAddressing ==
  /\ [][(pc = "download" /\ lastReq'.kind = "download") =>
          /\ polled.status = "DONE"
          /\ lastReq'.url = <<instance, base_path, "/exports/downloads/",
                              polled.workspaceId>>
          /\ lastReq'.params = [key |-> listed[1]]]_vars
  /\ [](lastReq.kind \in SnapshotKinds =>
          \A i \in DOMAIN lastReq.url : lastReq.url[i] \notin JobIds)
  /\ [](lastReq.kind = "status" => lastReq.url[4] \in JobIds)

C15_Witness ==
  /\ pc = "download_surveys" /\ lastReq.kind = "download" /\ sawDone
  /\ lastReq.url[4] = "ws2" /\ lastReq.params.key = "k2"

\* C16: once take_snapshot has returned, its value is False exactly when it
\* ended by timeout or by an export record that is not "COMPLETED", and None
\* exactly when it ended in the download, by a caught HTTP error or by the
\* report of a saved file.
C16_ReturnValue ==
  Returned =>
    /\ result \in {"False", "None"}
    /\ result = "False" <=>
         ("timeout" \in reports \/ "not_completed" \in reports)
    /\ result = "None" <=>
         ("download_error" \in reports \/ "saved" \in reports)
    /\ Cardinality(reports \cap {"timeout", "not_completed", "download_error",
                                 "saved"}) = 1

C16_Witness ==
  /\ Returned /\ result = "None"
  /\ "download_error" \in reports /\ ~ExportWritten
  /\ lastReq.kind = "download" /\ Raises(lastCode)

InSurveys == pc \in {"download_surveys", "surveys", "runs", "exit"}

\* C17: every request dispatched by access_leanix_api has a header that is
\* set and carries the bearer token of the latest connect() that succeeded,
\* which came before it in the run; from the return of take_snapshot on no
\* token is requested and the header's token stays the one of the last
\* connect() before that return, so every survey request carries it.
C17_RequestsCarryToken ==
  /\ [](lastReq.kind \notin {"none", "token"} =>
          /\ issued \in Tokens
          /\ HasItem(lastReq.headers, "Authorization")
          /\ lastReq.headers.items.Authorization = <<"Bearer ", issued>>)
  /\ [][InSurveys =>
          /\ lastReq'.kind # "token"
          /\ issued' = issued
          /\ header' = header]_vars

C17_Witness ==
  /\ lastReq.kind = "results" /\ pc = "exit"
  /\ issued = "tokB"
  /\ lastReq.headers.items.Authorization = <<"Bearer ", "tokB">>
====
